---- MODULE Spec2Model ----
\* Connection cache and resource lifecycle of core.Client (src/client.go).
\* ConnStore and Resource live outside client.go; their operations are
\* modelled from the design document (sections 3, 4.1 and 4.2).
EXTENDS Integers, Sequences, FiniteSets, TLC

\* ---------------------------------------------------------------- bounds
MaxRes == 2
MaxTime == 1
MaxHdrLen == 1
MaxPersists == 2

Threads == {"t1", "t2"}
Res == 1..MaxRes
NoRes == 0
Endpoints == {"svcA", "all"}
HeaderVals == {"a"}
\* values of MAX_LIFE_CONN (minutes) and TICK_CLOSE_CONN the environment may give
MaxLifeChoices == {0, 1}
TickChoices == {0, 1}
ReflectChoices == {<< >>, <<"r">>}

VARIABLES
    conn,            \* ConnStore.conn: endpoint -> connection entry
    closes,          \* per handle: number of Close calls received
    broken,          \* per handle: transport permanently failed
    resHeaders,      \* Resource.headers
    resMd,           \* Resource.md (header list the metadata was built from)
    nextId,          \* next handle a successful dial creates
    now,             \* clock, in minutes
    maxLifeConn,     \* Client.maxLifeConn
    gcActive,        \* ConnStore background sweep started
    headers,         \* Client.headers
    reflectHeaders,  \* Client.reflectHeaders
    pc,              \* per thread: position inside the running call
    op,              \* per thread: the exported method being run
    target,          \* per thread: target / host argument
    isRestartConn,   \* per thread: isRestartConn argument
    found,           \* per thread: r of line 102
    ret,             \* per thread: returned *Resource (NoRes = nil)
    err,             \* per thread: returned error
    dials,           \* per thread: dial attempts made in the running call
    snap,            \* per thread: getAllConn() result of line 159
    todo,            \* per thread: keys of snap not yet ranged over
    solo,            \* per thread: no other operation ran since the call began
    frame,           \* per thread: the frame of Invoke / GetResourceWithProto around GetResource
    resProtos,       \* Resource.protos (<< >> is the nil slice)
    persists,        \* per resource: descriptor sets written to disk by AddProtos
    lastCall         \* per endpoint: descriptor set of the last GetResourceWithProto that succeeded

cacheVars == <<conn, closes, broken, resHeaders, resMd, nextId>>
clientVars == <<now, maxLifeConn, gcActive, headers, reflectHeaders>>
argVars == <<op, target, isRestartConn>>
localVars == <<found, ret, err, dials, snap, todo>>
outerVars == <<frame, resProtos, persists, lastCall>>
vars == <<cacheVars, clientVars, pc, argVars, localVars, solo, outerVars>>

\* ------------------------------------------------------------ ConnStore
NoConn == [resource |-> NoRes, expired |-> 0, keepAlive |-> FALSE]

NewConnectionStore == [e \in Endpoints |-> NoConn]

\* Lookup
getConnection(host) == conn[host].resource

\* Snapshot
getAllConn == [e \in Endpoints |-> conn[e].resource]

\* Insert: expiresAt = now + maxLifetime; maxLifetime <= 0 never expires
addConnection(c, host, r, ttl) ==
    [c EXCEPT ![host] = [resource |-> r, expired |-> now + ttl, keepAlive |-> ttl <= 0]]

\* Delete: the map half
delete(c, host) == [c EXCEPT ![host] = NoConn]

\* Resource.Close on a set of handles
closeAll(cl, rs) == [r \in Res |-> IF r \in rs /\ cl[r] < 2 THEN cl[r] + 1 ELSE cl[r]]

\* Delete: the handle half, no-op when absent
deleteClose(cl, c, host) == closeAll(cl, {c[host].resource} \ {NoRes})

\* Extend
extend(c, host, ttl) ==
    IF c[host].resource = NoRes THEN c
    ELSE [c EXCEPT ![host].expired = now + ttl, ![host].keepAlive = ttl <= 0]

isExpired(e) == e.resource # NoRes /\ ~e.keepAlive /\ e.expired <= now

\* ------------------------------------------------------------- Resource
isValid(r) == closes[r] = 0 /\ ~broken[r]

\* --------------------------------------------------------------- Client
\* no Invoke or GetResourceWithProto around the running call
NoFrame ==
    [outer |-> "none", protos |-> << >>, service |-> "", method |-> "", name |-> << >>,
     gets |-> 0, invs |-> 0, adds |-> 0, acq |-> << >>, sent |-> << >>]

\* no GetResourceWithProto has succeeded for the endpoint yet
NoCall == [made |-> FALSE, protos |-> << >>]

\* mutant: the reflection headers put first
combined_ReflectFirst == reflectHeaders \o headers

\* append(g.headers, g.reflectHeaders...)
combined == headers \o reflectHeaders

\* results of g.dial: credentials are built, and can fail, only without plainText
DialOutcomes(plain) ==
    {"ok", "DialError"} \cup (IF plain THEN {} ELSE {"CredentialError"})

\* the plainText argument: Invoke passes true (line 91), other callers choose
PlainChoices(t) == IF frame[t].outer = "Invoke" THEN {TRUE} ELSE BOOLEAN

\* mutant: the configured lifetime is kept although the sweep is not started
InitBase_KeepsMaxLife ==
    /\ conn = NewConnectionStore
    /\ closes = [r \in Res |-> 0]
    /\ broken = [r \in Res |-> FALSE]
    /\ resHeaders = [r \in Res |-> << >>]
    /\ resMd = [r \in Res |-> << >>]
    /\ nextId = 1
    /\ now = 0
    /\ \E maxLife \in MaxLifeChoices, tick \in TickChoices :
          /\ maxLifeConn = maxLife
          /\ gcActive = (maxLife > 0 /\ tick > 0)
    /\ headers = << >>
    /\ pc = [t \in Threads |-> "idle"]
    /\ op = [t \in Threads |-> "none"]
    /\ target = [t \in Threads |-> "svcA"]
    /\ isRestartConn = [t \in Threads |-> FALSE]
    /\ found = [t \in Threads |-> NoRes]
    /\ ret = [t \in Threads |-> NoRes]
    /\ err = [t \in Threads |-> "nil"]
    /\ dials = [t \in Threads |-> 0]
    /\ snap = [t \in Threads |-> [e \in Endpoints |-> NoRes]]
    /\ todo = [t \in Threads |-> {}]
    /\ solo = [t \in Threads |-> TRUE]
    /\ frame = [t \in Threads |-> NoFrame]
    /\ resProtos = [r \in Res |-> << >>]
    /\ persists = [r \in Res |-> 0]
    /\ lastCall = [e \in Endpoints |-> NoCall]

\* NewClient, lines 47-69: the lifetime is set and the sweep started only when
\* both settings are positive
InitBase ==
    /\ conn = NewConnectionStore
    /\ closes = [r \in Res |-> 0]
    /\ broken = [r \in Res |-> FALSE]
    /\ resHeaders = [r \in Res |-> << >>]
    /\ resMd = [r \in Res |-> << >>]
    /\ nextId = 1
    /\ now = 0
    /\ \E maxLife \in MaxLifeChoices, tick \in TickChoices :
          /\ maxLifeConn = IF maxLife > 0 /\ tick > 0 THEN maxLife ELSE 0
          /\ gcActive = (maxLife > 0 /\ tick > 0)
    /\ headers = << >>
    /\ pc = [t \in Threads |-> "idle"]
    /\ op = [t \in Threads |-> "none"]
    /\ target = [t \in Threads |-> "svcA"]
    /\ isRestartConn = [t \in Threads |-> FALSE]
    /\ found = [t \in Threads |-> NoRes]
    /\ ret = [t \in Threads |-> NoRes]
    /\ err = [t \in Threads |-> "nil"]
    /\ dials = [t \in Threads |-> 0]
    /\ snap = [t \in Threads |-> [e \in Endpoints |-> NoRes]]
    /\ todo = [t \in Threads |-> {}]
    /\ solo = [t \in Threads |-> TRUE]
    /\ frame = [t \in Threads |-> NoFrame]
    /\ resProtos = [r \in Res |-> << >>]
    /\ persists = [r \in Res |-> 0]
    /\ lastCall = [e \in Endpoints |-> NoCall]

\* NewClient leaves reflectHeaders nil
Init == InitBase /\ reflectHeaders = << >>

\* the sweeping configuration, with reflectHeaders as the rest of the package
\* may have set it
InitHeaders == InitBase /\ gcActive /\ reflectHeaders \in ReflectChoices

\* SetHeaders
SetHeaders(hs) ==
    /\ headers' = hs
    /\ UNCHANGED <<cacheVars, now, maxLifeConn, gcActive, reflectHeaders, pc, argVars, localVars, solo, outerVars>>

\* AddHeaders
AddHeaders(hs) ==
    /\ Len(headers) + Len(hs) <= MaxHdrLen
    /\ headers' = headers \o hs
    /\ UNCHANGED <<cacheVars, now, maxLifeConn, gcActive, reflectHeaders, pc, argVars, localVars, solo, outerVars>>

\* ClearHeaders
ClearHeaders ==
    /\ headers' = << >>
    /\ UNCHANGED <<cacheVars, now, maxLifeConn, gcActive, reflectHeaders, pc, argVars, localVars, solo, outerVars>>

\* line 102: the lookup GetResource begins with
Lookup(t, host, restart) ==
    /\ pc[t] = "idle"
    /\ op' = [op EXCEPT ![t] = "GetResource"]
    /\ target' = [target EXCEPT ![t] = host]
    /\ isRestartConn' = [isRestartConn EXCEPT ![t] = restart]
    /\ found' = [found EXCEPT ![t] = getConnection(host)]
    /\ pc' = [pc EXCEPT ![t] = IF getConnection(host) # NoRes THEN "check" ELSE "dial"]
    /\ UNCHANGED <<cacheVars, clientVars, ret, err, dials, snap, todo>>

\* GetResource called by a user of the client
GetResource(t, host, restart) ==
    /\ Lookup(t, host, restart)
    /\ UNCHANGED outerVars

\* mutant: the cached resource is never reused
GetResourceCheck_NoReuse(t) ==
    /\ pc[t] = "check"
    /\ pc' = [pc EXCEPT ![t] = "close"]
    /\ UNCHANGED <<cacheVars, clientVars, argVars, localVars, outerVars>>

\* mutant: the health of the cached resource is not looked at
GetResourceCheck_IgnoreHealth(t) ==
    /\ pc[t] = "check"
    /\ IF ~isRestartConn[t]
       THEN /\ resHeaders' = [resHeaders EXCEPT ![found[t]] = headers \o reflectHeaders]
            /\ ret' = [ret EXCEPT ![t] = found[t]]
            /\ pc' = [pc EXCEPT ![t] = "done"]
       ELSE /\ pc' = [pc EXCEPT ![t] = "close"]
            /\ UNCHANGED <<resHeaders, ret>>
    /\ UNCHANGED <<conn, closes, broken, resMd, nextId, clientVars, argVars,
                   found, err, dials, snap, todo, outerVars>>

\* mutant: a reuse also renews the entry's lifetime
GetResourceCheck_Touch(t) ==
    /\ pc[t] = "check"
    /\ IF ~isRestartConn[t] /\ isValid(found[t])
       THEN /\ resHeaders' = [resHeaders EXCEPT ![found[t]] = headers \o reflectHeaders]
            /\ ret' = [ret EXCEPT ![t] = found[t]]
            /\ conn' = extend(conn, target[t], maxLifeConn + 1)
            /\ pc' = [pc EXCEPT ![t] = "done"]
       ELSE /\ pc' = [pc EXCEPT ![t] = "close"]
            /\ UNCHANGED <<resHeaders, ret, conn>>
    /\ UNCHANGED <<closes, broken, resMd, nextId, clientVars, argVars,
                   found, err, dials, snap, todo, outerVars>>

\* mutant: the stale entry is left in place and the dial goes ahead
GetResourceCheck_SkipClose(t) ==
    /\ pc[t] = "check"
    /\ IF ~isRestartConn[t] /\ isValid(found[t])
       THEN /\ resHeaders' = [resHeaders EXCEPT ![found[t]] = headers \o reflectHeaders]
            /\ ret' = [ret EXCEPT ![t] = found[t]]
            /\ pc' = [pc EXCEPT ![t] = "done"]
       ELSE /\ pc' = [pc EXCEPT ![t] = "dial"]
            /\ UNCHANGED <<resHeaders, ret>>
    /\ UNCHANGED <<conn, closes, broken, resMd, nextId, clientVars, argVars,
                   found, err, dials, snap, todo, outerVars>>

\* lines 103-107: reuse the cached resource, or move on to line 108
GetResourceCheck(t) ==
    /\ pc[t] = "check"
    /\ IF ~isRestartConn[t] /\ isValid(found[t])
       THEN /\ resHeaders' = [resHeaders EXCEPT ![found[t]] = combined]
            /\ ret' = [ret EXCEPT ![t] = found[t]]
            /\ pc' = [pc EXCEPT ![t] = "done"]
       ELSE /\ pc' = [pc EXCEPT ![t] = "close"]
            /\ UNCHANGED <<resHeaders, ret>>
    /\ UNCHANGED <<conn, closes, broken, resMd, nextId, clientVars, argVars,
                   found, err, dials, snap, todo, outerVars>>

\* where a finished CloseActiveConns continues: line 111 or the caller
AfterClose(t) == IF op[t] = "GetResource" THEN "dial" ELSE "done"

\* CloseActiveConns body, lines 158-166, run at pc "close"
CloseBody(t) ==
    IF target[t] = "all"
    THEN /\ snap' = [snap EXCEPT ![t] = getAllConn]
         /\ todo' = [todo EXCEPT ![t] = {e \in Endpoints : conn[e].resource # NoRes}]
         /\ pc' = [pc EXCEPT ![t] = "closeLoop"]
         /\ UNCHANGED <<conn, closes>>
    ELSE /\ conn' = delete(conn, target[t])
         /\ closes' = deleteClose(closes, conn, target[t])
         /\ pc' = [pc EXCEPT ![t] = AfterClose(t)]
         /\ UNCHANGED <<snap, todo>>

\* line 108: g.CloseActiveConns(target)
GetResourceClose(t) ==
    /\ pc[t] = "close"
    /\ op[t] = "GetResource"
    /\ CloseBody(t)
    /\ UNCHANGED <<broken, resHeaders, resMd, nextId, clientVars, argVars,
                   found, ret, err, dials, outerVars>>

\* mutant: every host is treated as "all"
CloseActiveConns_AlwaysAll(t, host) ==
    /\ pc[t] = "idle"
    /\ op' = [op EXCEPT ![t] = "CloseActiveConns"]
    /\ target' = [target EXCEPT ![t] = host]
    /\ snap' = [snap EXCEPT ![t] = getAllConn]
    /\ todo' = [todo EXCEPT ![t] = {e \in Endpoints : conn[e].resource # NoRes}]
    /\ pc' = [pc EXCEPT ![t] = "closeLoop"]
    /\ UNCHANGED <<conn, closes, broken, resHeaders, resMd, nextId, clientVars, isRestartConn,
                   found, ret, err, dials, outerVars>>

\* CloseActiveConns called by a user of the client
CloseActiveConns(t, host) ==
    /\ pc[t] = "idle"
    /\ op' = [op EXCEPT ![t] = "CloseActiveConns"]
    /\ target' = [target EXCEPT ![t] = host]
    /\ IF host = "all"
       THEN /\ snap' = [snap EXCEPT ![t] = getAllConn]
            /\ todo' = [todo EXCEPT ![t] = {e \in Endpoints : conn[e].resource # NoRes}]
            /\ pc' = [pc EXCEPT ![t] = "closeLoop"]
            /\ UNCHANGED <<conn, closes>>
       ELSE /\ conn' = delete(conn, host)
            /\ closes' = deleteClose(closes, conn, host)
            /\ pc' = [pc EXCEPT ![t] = "done"]
            /\ UNCHANGED <<snap, todo>>
    /\ UNCHANGED <<broken, resHeaders, resMd, nextId, clientVars, isRestartConn,
                   found, ret, err, dials, outerVars>>

\* mutant: the loop stops after its first iteration
CloseLoop_FirstOnly(t) ==
    /\ pc[t] = "closeLoop"
    /\ IF todo[t] = {}
       THEN /\ UNCHANGED <<conn, closes>>
       ELSE \E k \in todo[t] :
            /\ conn' = delete(conn, k)
            /\ closes' = deleteClose(closes, conn, k)
    /\ todo' = [todo EXCEPT ![t] = {}]
    /\ pc' = [pc EXCEPT ![t] = AfterClose(t)]
    /\ UNCHANGED <<broken, resHeaders, resMd, nextId, clientVars, argVars,
                   found, ret, err, dials, snap, outerVars>>

\* lines 159-162: one iteration of the range loop, or its end
CloseLoop(t) ==
    /\ pc[t] = "closeLoop"
    /\ IF todo[t] = {}
       THEN /\ pc' = [pc EXCEPT ![t] = AfterClose(t)]
            /\ UNCHANGED <<conn, closes, todo>>
       ELSE \E k \in todo[t] :
            /\ conn' = delete(conn, k)
            /\ closes' = deleteClose(closes, conn, k)
            /\ todo' = [todo EXCEPT ![t] = todo[t] \ {k}]
            /\ UNCHANGED pc
    /\ UNCHANGED <<broken, resHeaders, resMd, nextId, clientVars, argVars,
                   found, ret, err, dials, snap, outerVars>>

\* mutant: a failed dial is tried once more before the error is returned
GetResourceDial_Retry(t) ==
    /\ pc[t] = "dial"
    /\ \E plain \in PlainChoices(t) : \E out \in DialOutcomes(plain) :
          /\ out = "ok" => nextId <= MaxRes
          /\ dials' = [dials EXCEPT ![t] = dials[t] + 1]
          /\ IF out = "ok"
             THEN /\ found' = [found EXCEPT ![t] = nextId]
                  /\ nextId' = nextId + 1
                  /\ resMd' = [resMd EXCEPT ![nextId] = headers \o reflectHeaders]
                  /\ resHeaders' = [resHeaders EXCEPT ![nextId] = headers \o reflectHeaders]
                  /\ pc' = [pc EXCEPT ![t] = "add"]
                  /\ UNCHANGED err
             ELSE /\ IF dials[t] = 0
                     THEN UNCHANGED <<err, pc>>
                     ELSE /\ err' = [err EXCEPT ![t] = out]
                          /\ pc' = [pc EXCEPT ![t] = "done"]
                  /\ UNCHANGED <<found, nextId, resMd, resHeaders>>
    /\ UNCHANGED <<conn, closes, broken, clientVars, argVars, ret, snap, todo, outerVars>>

\* lines 111-118 and 174-215: build the resource and dial. The plainText
\* argument is read nowhere but in the dial, so its value is drawn here.
GetResourceDial(t) ==
    /\ pc[t] = "dial"
    /\ \E plain \in PlainChoices(t) : \E out \in DialOutcomes(plain) :
          /\ out = "ok" => nextId <= MaxRes
          /\ dials' = [dials EXCEPT ![t] = dials[t] + 1]
          /\ IF out = "ok"
             THEN /\ found' = [found EXCEPT ![t] = nextId]
                  /\ nextId' = nextId + 1
                  /\ resMd' = [resMd EXCEPT ![nextId] = combined]
                  /\ resHeaders' = [resHeaders EXCEPT ![nextId] = combined]
                  /\ pc' = [pc EXCEPT ![t] = "add"]
                  /\ UNCHANGED err
             ELSE /\ err' = [err EXCEPT ![t] = out]
                  /\ pc' = [pc EXCEPT ![t] = "done"]
                  /\ UNCHANGED <<found, nextId, resMd, resHeaders>>
    /\ UNCHANGED <<conn, closes, broken, clientVars, argVars, ret, snap, todo, outerVars>>

\* mutant: the entry is inserted without a lifetime
GetResourceAdd_NoTtl(t) ==
    /\ pc[t] = "add"
    /\ conn' = addConnection(conn, target[t], found[t], 0)
    /\ ret' = [ret EXCEPT ![t] = found[t]]
    /\ pc' = [pc EXCEPT ![t] = "done"]
    /\ UNCHANGED <<closes, broken, resHeaders, resMd, nextId, clientVars, argVars,
                   found, err, dials, snap, todo, outerVars>>

\* lines 122-123: insert and return
GetResourceAdd(t) ==
    /\ pc[t] = "add"
    /\ conn' = addConnection(conn, target[t], found[t], maxLifeConn)
    /\ ret' = [ret EXCEPT ![t] = found[t]]
    /\ pc' = [pc EXCEPT ![t] = "done"]
    /\ UNCHANGED <<closes, broken, resHeaders, resMd, nextId, clientVars, argVars,
                   found, err, dials, snap, todo, outerVars>>

\* the call returns to its caller; the frame is dropped
Return(t) ==
    /\ \/ pc[t] = "done" /\ frame[t].outer = "none"
       \/ pc[t] = "end"
    /\ pc' = [pc EXCEPT ![t] = "idle"]
    /\ op' = [op EXCEPT ![t] = "none"]
    /\ target' = [target EXCEPT ![t] = "svcA"]
    /\ isRestartConn' = [isRestartConn EXCEPT ![t] = FALSE]
    /\ found' = [found EXCEPT ![t] = NoRes]
    /\ ret' = [ret EXCEPT ![t] = NoRes]
    /\ err' = [err EXCEPT ![t] = "nil"]
    /\ dials' = [dials EXCEPT ![t] = 0]
    /\ snap' = [snap EXCEPT ![t] = [e \in Endpoints |-> NoRes]]
    /\ todo' = [todo EXCEPT ![t] = {}]
    /\ solo' = [solo EXCEPT ![t] = TRUE]
    /\ frame' = [frame EXCEPT ![t] = NoFrame]
    /\ UNCHANGED <<cacheVars, clientVars, resProtos, persists, lastCall>>

\* mutant: the entry is extended by nothing instead of by maxLifeConn
Extend_ZeroTtl(t, host) ==
    /\ pc[t] = "idle"
    /\ op' = [op EXCEPT ![t] = "Extend"]
    /\ target' = [target EXCEPT ![t] = host]
    /\ conn' = extend(conn, host, 0)
    /\ pc' = [pc EXCEPT ![t] = "done"]
    /\ UNCHANGED <<closes, broken, resHeaders, resMd, nextId, clientVars, isRestartConn, localVars, outerVars>>

\* Extend, lines 170-172
Extend(t, host) ==
    /\ pc[t] = "idle"
    /\ op' = [op EXCEPT ![t] = "Extend"]
    /\ target' = [target EXCEPT ![t] = host]
    /\ conn' = extend(conn, host, maxLifeConn)
    /\ pc' = [pc EXCEPT ![t] = "done"]
    /\ UNCHANGED <<closes, broken, resHeaders, resMd, nextId, clientVars, isRestartConn, localVars, outerVars>>

\* background sweep started by StartGC: one scan
Sweep ==
    /\ gcActive
    /\ conn' = [e \in Endpoints |-> IF isExpired(conn[e]) THEN NoConn ELSE conn[e]]
    /\ closes' = closeAll(closes, {conn[e].resource : e \in {x \in Endpoints : isExpired(conn[x])}})
    /\ solo' = [u \in Threads |-> solo[u] /\ pc[u] \in {"idle", "done"}]
    /\ UNCHANGED <<broken, resHeaders, resMd, nextId, clientVars, pc, argVars, localVars, outerVars>>

\* time passes
Tick ==
    /\ now < MaxTime
    /\ now' = now + 1
    /\ UNCHANGED <<cacheVars, maxLifeConn, gcActive, headers, reflectHeaders, pc, argVars, localVars, solo, outerVars>>

\* the transport of an open handle fails for good
Break(r) ==
    /\ r < nextId
    /\ closes[r] = 0
    /\ ~broken[r]
    /\ broken' = [broken EXCEPT ![r] = TRUE]
    /\ UNCHANGED <<conn, closes, resHeaders, resMd, nextId, clientVars, pc, argVars, localVars, solo, outerVars>>

\* descriptor sets a caller passes; << >> is the nil slice, and the empty
\* non-nil slice is not drawn
ProtoChoices == {<< >>, <<"p1", "p2">>, <<"p2", "p1">>}

\* reflect.DeepEqual on two []Proto: same length, same elements in the same order
DeepEqual(a, b) == Len(a) = Len(b) /\ \A i \in 1..Len(a) : a[i] = b[i]

\* results of Resource.AddProtos
AddProtosOutcomes == {"ok", "PersistenceError"}

\* GetResourceWithProto entry, line 127: the call of GetResource
GetResourceWithProto(t, host, restart, ps) ==
    /\ Lookup(t, host, restart)
    /\ frame' = [frame EXCEPT ![t] =
                    [NoFrame EXCEPT !.outer = "GetResourceWithProto", !.protos = ps, !.gets = 1]]
    /\ UNCHANGED <<resProtos, persists, lastCall>>

\* mutant: the descriptor set is handed to AddProtos without the comparison
GetResourceWithProtoRest_AlwaysAdd(t) ==
    /\ pc[t] = "done"
    /\ frame[t].outer = "GetResourceWithProto"
    /\ IF err[t] # "nil"
       THEN /\ ret' = [ret EXCEPT ![t] = NoRes]
            /\ lastCall' = [lastCall EXCEPT ![target[t]] = NoCall]
            /\ UNCHANGED <<err, frame, resProtos, persists>>
       ELSE \E out \in AddProtosOutcomes :
               /\ out = "ok" => persists[ret[t]] < MaxPersists
               /\ frame' = [frame EXCEPT ![t].adds = frame[t].adds + 1]
               /\ IF out = "ok"
                  THEN /\ resProtos' = [resProtos EXCEPT ![ret[t]] = frame[t].protos]
                       /\ persists' = [persists EXCEPT ![ret[t]] = persists[ret[t]] + 1]
                       /\ lastCall' = [lastCall EXCEPT ![target[t]] =
                                          [made |-> TRUE, protos |-> frame[t].protos]]
                       /\ UNCHANGED err
                  ELSE /\ err' = [err EXCEPT ![t] = out]
                       /\ lastCall' = [lastCall EXCEPT ![target[t]] = NoCall]
                       /\ UNCHANGED <<resProtos, persists>>
               /\ UNCHANGED ret
    /\ pc' = [pc EXCEPT ![t] = "end"]
    /\ UNCHANGED <<cacheVars, clientVars, argVars, found, dials, snap, todo>>

\* GetResourceWithProto after GetResource has returned, lines 128-141.
\* AddProtos on success records the set on the Resource and writes it to disk;
\* on failure the recorded set stays as it was.
GetResourceWithProtoRest(t) ==
    /\ pc[t] = "done"
    /\ frame[t].outer = "GetResourceWithProto"
    /\ IF err[t] # "nil"
       THEN /\ ret' = [ret EXCEPT ![t] = NoRes]
            /\ lastCall' = [lastCall EXCEPT ![target[t]] = NoCall]
            /\ UNCHANGED <<err, frame, resProtos, persists>>
       ELSE IF DeepEqual(resProtos[ret[t]], frame[t].protos)
       THEN /\ lastCall' = [lastCall EXCEPT ![target[t]] =
                               [made |-> TRUE, protos |-> frame[t].protos]]
            /\ UNCHANGED <<ret, err, frame, resProtos, persists>>
       ELSE \E out \in AddProtosOutcomes :
               /\ out = "ok" => persists[ret[t]] < MaxPersists
               /\ frame' = [frame EXCEPT ![t].adds = frame[t].adds + 1]
               /\ IF out = "ok"
                  THEN /\ resProtos' = [resProtos EXCEPT ![ret[t]] = frame[t].protos]
                       /\ persists' = [persists EXCEPT ![ret[t]] = persists[ret[t]] + 1]
                       /\ lastCall' = [lastCall EXCEPT ![target[t]] =
                                          [made |-> TRUE, protos |-> frame[t].protos]]
                       /\ UNCHANGED err
                  ELSE /\ err' = [err EXCEPT ![t] = out]
                       /\ lastCall' = [lastCall EXCEPT ![target[t]] = NoCall]
                       /\ UNCHANGED <<resProtos, persists>>
               /\ UNCHANGED ret
    /\ pc' = [pc EXCEPT ![t] = "end"]
    /\ UNCHANGED <<cacheVars, clientVars, argVars, found, dials, snap, todo>>

\* service and method names a caller passes to Invoke
Services == {"svc"}
Methods == {"m2"}

\* results of Resource.Invoke ("nil" is a reply without error): a transport
\* error on an unusable handle, otherwise a reply or a resolution or protocol error
InvokeOutcomes(r) ==
    IF isValid(r) THEN {"nil", "ResolutionError", "ProtocolError"} ELSE {"TransportError"}

\* Invoke entry, lines 90-91: g.GetResource(ctx, target, true, false)
Invoke(t, host, service, method) ==
    /\ Lookup(t, host, FALSE)
    /\ frame' = [frame EXCEPT ![t] =
                    [NoFrame EXCEPT !.outer = "Invoke", !.service = service,
                                    !.method = method, !.gets = 1]]
    /\ UNCHANGED <<resProtos, persists, lastCall>>

\* lines 91-94: GetResource has returned to Invoke
InvokeGot(t) ==
    /\ pc[t] = "done"
    /\ frame[t].outer = "Invoke"
    /\ IF err[t] # "nil"
       THEN /\ pc' = [pc EXCEPT ![t] = "end"]
            /\ UNCHANGED frame
       ELSE /\ pc' = [pc EXCEPT ![t] = "invoke"]
            /\ frame' = [frame EXCEPT ![t].acq = resHeaders[ret[t]]]
    /\ UNCHANGED <<cacheVars, clientVars, argVars, localVars, resProtos, persists, lastCall>>

\* mutant: the method name of the commented-out line 96
InvokeSend_ProtoPrefix(t) ==
    /\ pc[t] = "invoke"
    /\ \E out \in InvokeOutcomes(ret[t]) :
          /\ frame' = [frame EXCEPT ![t].invs = frame[t].invs + 1,
                                    ![t].name = "proto." \o frame[t].service \o "." \o frame[t].method,
                                    ![t].sent = resHeaders[ret[t]]]
          /\ err' = [err EXCEPT ![t] = out]
    /\ pc' = [pc EXCEPT ![t] = "end"]
    /\ UNCHANGED <<cacheVars, clientVars, argVars, found, ret, dials, snap, todo,
                   resProtos, persists, lastCall>>

\* mutant: a failed invocation drops the endpoint's connection
InvokeSend_DropOnError(t) ==
    /\ pc[t] = "invoke"
    /\ \E out \in InvokeOutcomes(ret[t]) :
          /\ frame' = [frame EXCEPT ![t].invs = frame[t].invs + 1,
                                    ![t].name = frame[t].service \o "." \o frame[t].method,
                                    ![t].sent = resHeaders[ret[t]]]
          /\ err' = [err EXCEPT ![t] = out]
          /\ IF out = "nil"
             THEN UNCHANGED <<conn, closes>>
             ELSE /\ conn' = delete(conn, target[t])
                  /\ closes' = deleteClose(closes, conn, target[t])
    /\ pc' = [pc EXCEPT ![t] = "end"]
    /\ UNCHANGED <<broken, resHeaders, resMd, nextId, clientVars, argVars, found, ret, dials,
                   snap, todo, resProtos, persists, lastCall>>

\* mutant: the invocation sends the headers the acquisition left on the resource
InvokeSend_AcquiredHeaders(t) ==
    /\ pc[t] = "invoke"
    /\ \E out \in InvokeOutcomes(ret[t]) :
          /\ frame' = [frame EXCEPT ![t].invs = frame[t].invs + 1,
                                    ![t].name = frame[t].service \o "." \o frame[t].method,
                                    ![t].sent = frame[t].acq]
          /\ err' = [err EXCEPT ![t] = out]
    /\ pc' = [pc EXCEPT ![t] = "end"]
    /\ UNCHANGED <<cacheVars, clientVars, argVars, found, ret, dials, snap, todo,
                   resProtos, persists, lastCall>>

\* lines 95-97: rs.Invoke(ctx, fmt.Sprintf("%s.%s", service, method), buf).
\* Resource.Invoke sends with the Resource's headers as they are now and
\* touches neither the cache nor the handle.
InvokeSend(t) ==
    /\ pc[t] = "invoke"
    /\ \E out \in InvokeOutcomes(ret[t]) :
          /\ frame' = [frame EXCEPT ![t].invs = frame[t].invs + 1,
                                    ![t].name = frame[t].service \o "." \o frame[t].method,
                                    ![t].sent = resHeaders[ret[t]]]
          /\ err' = [err EXCEPT ![t] = out]
    /\ pc' = [pc EXCEPT ![t] = "end"]
    /\ UNCHANGED <<cacheVars, clientVars, argVars, found, ret, dials, snap, todo,
                   resProtos, persists, lastCall>>

HeaderLists == {<<x>> : x \in HeaderVals}

\* a step of t's call is an operation interleaved with every other running call
Interleave(t) ==
    solo' = [u \in Threads |-> IF u = t THEN solo[t] ELSE solo[u] /\ pc[u] \in {"idle", "done"}]

ThreadStep(t) ==
    \/ \E host \in Endpoints, restart \in BOOLEAN : GetResource(t, host, restart) /\ Interleave(t)
    \/ GetResourceCheck(t) /\ Interleave(t)
    \/ GetResourceClose(t) /\ Interleave(t)
    \/ GetResourceDial(t) /\ Interleave(t)
    \/ GetResourceAdd(t) /\ Interleave(t)
    \/ \E host \in Endpoints : CloseActiveConns(t, host) /\ Interleave(t)
    \/ CloseLoop(t) /\ Interleave(t)
    \/ \E host \in Endpoints : Extend(t, host) /\ Interleave(t)
    \/ Return(t)

HeaderStep ==
    \/ \E hs \in HeaderLists : SetHeaders(hs)
    \/ \E hs \in HeaderLists : AddHeaders(hs)
    \/ ClearHeaders

EnvStep ==
    \/ Sweep
    \/ Tick
    \/ \E r \in Res : Break(r)

\* concurrent callers, the sweeper and the clock; the header list stays as constructed
Next ==
    \/ \E t \in Threads : ThreadStep(t)
    \/ EnvStep

Spec == Init /\ [][Next]_vars

\* one call at a time, with the header list changed between and during calls
NextHeaders ==
    \/ \E t \in Threads : (\A u \in Threads \ {t} : pc[u] = "idle") /\ ThreadStep(t)
    \/ HeaderStep

SpecHeaders == InitHeaders /\ [][NextHeaders]_vars

\* one call at a time, the sweeper and the clock; the ticker of StartGC keeps
\* firing, so a sweep that has something to remove is eventually run
NextSweep ==
    \/ \E t \in Threads : (\A u \in Threads \ {t} : pc[u] = "idle") /\ ThreadStep(t)
    \/ EnvStep

SpecSweep == Init /\ [][NextSweep]_vars /\ WF_vars(Sweep)

ProtoThreadStep(t) ==
    \/ \E host \in Endpoints, restart \in BOOLEAN, ps \in ProtoChoices :
          GetResourceWithProto(t, host, restart, ps) /\ Interleave(t)
    \/ GetResourceCheck(t) /\ Interleave(t)
    \/ GetResourceClose(t) /\ Interleave(t)
    \/ CloseLoop(t) /\ Interleave(t)
    \/ GetResourceDial(t) /\ Interleave(t)
    \/ GetResourceAdd(t) /\ Interleave(t)
    \/ GetResourceWithProtoRest(t) /\ Interleave(t)
    \/ Return(t)

\* GetResourceWithProto calls run one after the other
NextProto ==
    \E t \in Threads : (\A u \in Threads \ {t} : pc[u] = "idle") /\ ProtoThreadStep(t)

SpecProto == Init /\ [][NextProto]_vars

InvokeThreadStep(t) ==
    \/ \E host \in Endpoints \ {"all"}, service \in Services, method \in Methods :
          Invoke(t, host, service, method) /\ Interleave(t)
    \/ GetResourceCheck(t) /\ Interleave(t)
    \/ GetResourceClose(t) /\ Interleave(t)
    \/ GetResourceDial(t) /\ Interleave(t)
    \/ GetResourceAdd(t) /\ Interleave(t)
    \/ InvokeGot(t) /\ Interleave(t)
    \/ InvokeSend(t) /\ Interleave(t)
    \/ Return(t)

\* concurrent Invoke callers of ordinary endpoints, with the header list
\* changed and handles failing meanwhile
NextInvoke ==
    \/ \E t \in Threads : InvokeThreadStep(t)
    \/ HeaderStep
    \/ \E r \in Res : Break(r)

\* the default configuration: lifetime and sweep interval positive
InitInvoke == Init /\ gcActive

SpecInvoke == InitInvoke /\ [][NextInvoke]_vars

\* ---------------------------------------------------------------- claims
Cached(r) == \E e \in Endpoints : conn[e].resource = r

\* a dialed handle waiting at line 122 to be inserted
Pending(r) == \E t \in Threads : pc[t] = "add" /\ found[t] = r

Created(r) == r < nextId

\* a finished, successful GetResource call that dialed
DialedOk(t) ==
    /\ pc[t] = "done"
    /\ op[t] = "GetResource"
    /\ err[t] = "nil"
    /\ dials[t] = 1
    /\ ret[t] # NoRes

\* C1: when two threads run GetResource(E, false) concurrently from an empty
\* cache and both dial successfully, every handle they dialed that is still
\* open is the one the cache maps E to (one dial reaches the cache, none is
\* left open outside it).
C1_NoOrphanAfterConcurrentMiss ==
    \A t, u \in Threads :
        ( /\ t # u
          /\ DialedOk(t) /\ DialedOk(u)
          /\ ~isRestartConn[t] /\ ~isRestartConn[u]
          /\ target[t] = target[u] )
        => \A r \in {ret[t], ret[u]} : closes[r] = 0 => conn[target[t]].resource = r

\* C2: every handle that was created and is no longer reachable through the
\* cache (nor about to be inserted) has been closed, no handle is closed more
\* than once, and no handle is cached under two keys.
C2_RemovedIsClosedOnce ==
    \A r \in Res :
        Created(r) =>
            /\ closes[r] <= 1
            /\ (Cached(r) \/ Pending(r) \/ closes[r] = 1)
            /\ Cardinality({e \in Endpoints : conn[e].resource = r}) <= 1

\* C3: a non-restarting GetResource whose cached resource reports healthy at
\* line 103 returns that resource with no error, without dialing and without
\* deleting or inserting any cache entry or closing any handle.
C3_ReuseHealthy ==
    [][\A t \in Threads :
          ( /\ pc[t] = "check"
            /\ pc'[t] # "check"
            /\ ~isRestartConn[t]
            /\ isValid(found[t]) )
          => /\ pc'[t] = "done"
             /\ ret'[t] = found[t]
             /\ err'[t] = "nil"
             /\ dials'[t] = 0
             /\ conn' = conn
             /\ closes' = closes
             /\ nextId' = nextId]_vars

C3_Witness ==
    \E t \in Threads :
        /\ pc[t] = "done"
        /\ op[t] = "GetResource"
        /\ ~isRestartConn[t]
        /\ dials[t] = 0
        /\ ret[t] # NoRes
        /\ conn[target[t]].resource = ret[t]

\* C4: with isRestartConn the resource found at line 102 is out of the cache
\* and its handle closed by the time the dial starts.
C4_OldClosedBeforeDial ==
    \A t \in Threads :
        (pc[t] = "dial" /\ isRestartConn[t] /\ found[t] # NoRes)
        => closes[found[t]] >= 1 /\ ~Cached(found[t])

\* C5: a non-restarting GetResource that finds its cached resource unhealthy
\* at line 103 does not return it: the call goes on to CloseActiveConns (which
\* empties the key of a single endpoint), from there only to the dial, makes
\* that dial, and returns either an error or the freshly dialed resource.
C5_UnhealthyNotReturned ==
    [][\A t \in Threads :
          /\ ( /\ pc[t] = "check" /\ pc'[t] # "check"
               /\ ~isRestartConn[t] /\ ~isValid(found[t]) )
             => /\ pc'[t] = "close"
                /\ ret'[t] = NoRes
                /\ resHeaders' = resHeaders
          /\ ( /\ pc[t] = "close" /\ pc'[t] # "close"
               /\ op[t] = "GetResource" /\ target[t] # "all" )
             => /\ pc'[t] = "dial"
                /\ conn'[target[t]] = NoConn
                /\ closes'[found[t]] >= 1 \/ conn[target[t]].resource # found[t]
          /\ ( /\ pc[t] \in {"close", "closeLoop"} /\ pc'[t] # pc[t]
               /\ op[t] = "GetResource" )
             => pc'[t] \in {"closeLoop", "dial"}
          /\ (pc[t] = "dial" /\ pc'[t] = "add")
             => found'[t] = nextId /\ closes[nextId] = 0 /\ ~broken[nextId]
          /\ (pc[t] = "add" /\ pc'[t] # "add")
             => ret'[t] = found[t]]_vars

C5_Witness ==
    \E t \in Threads :
        /\ pc[t] = "dial"
        /\ op[t] = "GetResource"
        /\ ~isRestartConn[t]
        /\ found[t] # NoRes
        /\ broken[found[t]]
        /\ closes[found[t]] = 1

DialErrors == {"DialError", "CredentialError"}

\* C6: a GetResource whose dial fails returns the dial's error and no
\* resource and leaves the cache and every handle as they were; no call makes
\* more than one dial attempt, and a call that returns an error returns no
\* resource.
C6_DialFailureSurfaced ==
    /\ [](\A t \in Threads :
            /\ dials[t] <= 1
            /\ (pc[t] = "done" /\ err[t] # "nil") => (ret[t] = NoRes /\ err[t] \in DialErrors))
    /\ [][\A t \in Threads :
            (pc[t] = "dial" /\ pc'[t] # "dial" /\ pc'[t] # "add")
            => /\ pc'[t] = "done"
               /\ err'[t] \in DialErrors
               /\ ret'[t] = NoRes
               /\ dials'[t] = 1
               /\ conn' = conn
               /\ closes' = closes
               /\ nextId' = nextId]_vars

C6_Witness ==
    \E t \in Threads :
        /\ pc[t] = "done"
        /\ op[t] = "GetResource"
        /\ err[t] = "CredentialError"
        /\ dials[t] = 1
        /\ \E e \in Endpoints : conn[e].resource # NoRes

\* C7: a non-restarting GetResource that reuses the cached resource leaves
\* that resource's headers equal to the client's header list at that call
\* followed by the reflection headers, whatever the resource held before.
C7_HeadersReplaced ==
    [][\A t \in Threads :
          (pc[t] = "check" /\ pc'[t] = "done")
          => /\ ret'[t] = found[t]
             /\ resHeaders'[found[t]] = headers \o reflectHeaders
             /\ \A r \in Res \ {found[t]} : resHeaders'[r] = resHeaders[r]]_vars

\* the second call's list is shorter than, and different from, the first's
C7_Witness ==
    \E t \in Threads :
        /\ pc[t] = "done"
        /\ op[t] = "GetResource"
        /\ dials[t] = 0
        /\ ret[t] # NoRes
        /\ reflectHeaders # << >>
        /\ resMd[ret[t]] = <<"a">> \o reflectHeaders
        /\ resHeaders[ret[t]] = reflectHeaders
        /\ headers = << >>

SnapClosed(t) == \A e \in Endpoints : snap[t][e] # NoRes => closes[snap[t][e]] >= 1

\* C8 as stated: when CloseActiveConns("all") returns the cache is empty and
\* every handle cached when it started is closed.
C8_Original ==
    [][\A t \in Threads :
          (pc[t] = "closeLoop" /\ pc'[t] = "done")
          => /\ \A e \in Endpoints : conn'[e] = NoConn
             /\ SnapClosed(t)']_vars

\* C8 amended: the same, for a call during which no other operation of the
\* client (a step of another caller, a sweep) ran.
C8_AllClosedWhenAlone ==
    [][\A t \in Threads :
          (pc[t] = "closeLoop" /\ pc'[t] = "done" /\ solo[t])
          => /\ \A e \in Endpoints : conn'[e] = NoConn
             /\ SnapClosed(t)']_vars

C8_Witness ==
    \E t \in Threads :
        /\ pc[t] = "done"
        /\ op[t] = "CloseActiveConns"
        /\ target[t] = "all"
        /\ solo[t]
        /\ \A e \in Endpoints : snap[t][e] # NoRes /\ conn[e] = NoConn

\* C9: CloseActiveConns(E) for a single endpoint empties E's key, closes the
\* handle that was cached there (once), leaves every other key and every other
\* handle as they were, changes nothing when E is not cached, and returns no
\* error in either case.
C9_CloseOneFrame ==
    [][\A t \in Threads :
          ( /\ pc[t] = "idle" /\ pc'[t] # "idle"
            /\ op'[t] = "CloseActiveConns" /\ target'[t] # "all" )
          => LET h == target'[t]
                 r == conn[h].resource
             IN /\ pc'[t] = "done"
                /\ err'[t] = "nil"
                /\ conn'[h] = NoConn
                /\ \A e \in Endpoints \ {h} : conn'[e] = conn[e]
                /\ r # NoRes => closes'[r] = closes[r] + 1
                /\ \A q \in Res \ {r} : closes'[q] = closes[q]
                /\ r = NoRes => (conn' = conn /\ closes' = closes)]_vars

C9_Witness ==
    \E t \in Threads :
        /\ pc[t] = "done"
        /\ op[t] = "CloseActiveConns"
        /\ target[t] = "svcA"
        /\ conn["svcA"] = NoConn
        /\ conn["all"].resource # NoRes
        /\ \E r \in Res : closes[r] = 1 /\ ~broken[r]

\* C10: Extend(E) at time T sets the expiry of a cached E to T + maxLifeConn
\* whatever it was and touches nothing else, Extend of an endpoint that is not
\* cached changes nothing, and a sweep removes only entries whose expiry is
\* not after the current time.
C10_ExtendResetsExpiry ==
    [][/\ \A t \in Threads :
            (pc[t] = "idle" /\ pc'[t] # "idle" /\ op'[t] = "Extend")
            => LET h == target'[t]
               IN /\ \A e \in Endpoints \ {h} : conn'[e] = conn[e]
                  /\ closes' = closes
                  /\ conn[h].resource = NoRes => conn' = conn
                  /\ conn[h].resource # NoRes =>
                        /\ conn'[h].resource = conn[h].resource
                        /\ conn'[h].expired = now + maxLifeConn
       /\ Sweep =>
            \A e \in Endpoints :
                (conn[e].resource # NoRes /\ conn'[e].resource = NoRes)
                => conn[e].expired <= now]_vars

\* an entry extended at time 1, next to one that still carries the expiry given at time 0
C10_Witness ==
    \E t \in Threads :
        /\ pc[t] = "done"
        /\ op[t] = "Extend"
        /\ gcActive
        /\ now = 1
        /\ conn[target[t]].resource # NoRes
        /\ conn[target[t]].expired = 1 + maxLifeConn
        /\ \E e \in Endpoints \ {target[t]} :
              conn[e].resource # NoRes /\ conn[e].expired = maxLifeConn

\* a step taken by some caller (the steps of the loop of line 159 keep pc)
CallerStep == \E t \in Threads : pc'[t] # pc[t] \/ todo'[t] # todo[t]

\* C11: with sweeping on, GetResource inserts its entry with expiry now +
\* maxLifeConn; an entry leaves the cache or is replaced before its expiry
\* only by a caller's step (a close or an insert), never by the sweep; a sweep
\* removes and closes every expired entry it finds; and an entry whose expiry
\* has passed is eventually removed, replaced or extended.
C11_KeptThenSwept ==
    /\ [][/\ \A t \in Threads :
               (gcActive /\ pc[t] = "add" /\ pc'[t] # "add")
               => conn'[target[t]] =
                     [resource |-> found[t], expired |-> now + maxLifeConn, keepAlive |-> FALSE]
          /\ \A e \in Endpoints :
               ( /\ conn[e].resource # NoRes
                 /\ conn'[e].resource # conn[e].resource
                 /\ now < conn[e].expired )
               => CallerStep
          /\ Sweep =>
               \A e \in Endpoints :
                   isExpired(conn[e]) =>
                       /\ conn'[e] = NoConn
                       /\ closes'[conn[e].resource] = closes[conn[e].resource] + 1]_vars
    /\ \A e \in Endpoints :
          (gcActive /\ isExpired(conn[e])) ~> ~isExpired(conn[e])

\* the resource a finished call inserted was removed and closed behind it,
\* which with one call at a time only the sweep can have done
C11_Witness ==
    \E t \in Threads :
        /\ DialedOk(t)
        /\ gcActive
        /\ closes[ret[t]] = 1
        /\ ~Cached(ret[t])

\* C12: without the sweep the client's max lifetime is zero, an inserted entry
\* is marked as never expiring, and an entry leaves the cache or changes only
\* by a caller's step (CloseActiveConns, a replacing GetResource, Extend),
\* however much time passes.
C12_NoSweepNoExpiry ==
    /\ [](~gcActive => maxLifeConn = 0)
    /\ [][~gcActive =>
            /\ \A t \in Threads :
                 (pc[t] = "add" /\ pc'[t] # "add")
                 => (conn'[target[t]].resource = found[t] /\ conn'[target[t]].keepAlive)
            /\ \A e \in Endpoints :
                 (conn[e].resource # NoRes /\ conn'[e] # conn[e]) => CallerStep]_vars

\* no sweep, time has passed, and an entry inserted at time 0 is still cached
C12_Witness ==
    /\ ~gcActive
    /\ now = MaxTime
    /\ \E e \in Endpoints :
          /\ conn[e].resource # NoRes
          /\ conn[e].expired = 0
          /\ closes[conn[e].resource] = 0

\* the step of lines 103-106 that hands back the cached resource
ReuseStep(t) == pc[t] = "check" /\ pc'[t] = "done"

\* C17: the reuse step of GetResource leaves the whole cache, expiries
\* included, unchanged; the expiry of an entry that keeps its resource changes
\* only in an Extend step for its endpoint; and a sweep removes every entry
\* whose expiry has passed, reused or not.
C17_ReuseKeepsExpiry ==
    [][/\ \A t \in Threads : ReuseStep(t) => conn' = conn
       /\ \A e \in Endpoints :
            ( /\ conn[e].resource # NoRes
              /\ conn'[e].resource = conn[e].resource
              /\ conn'[e] # conn[e] )
            => \E t \in Threads :
                  /\ pc[t] = "idle"
                  /\ op'[t] = "Extend"
                  /\ target'[t] = e
       /\ Sweep => \A e \in Endpoints : isExpired(conn[e]) => conn'[e] = NoConn]_vars

\* a call reused an entry inserted at time 0 whose lifetime is over by now
C17_Witness ==
    \E t \in Threads :
        /\ pc[t] = "done"
        /\ op[t] = "GetResource"
        /\ dials[t] = 0
        /\ ret[t] # NoRes
        /\ gcActive
        /\ now = MaxTime
        /\ conn[target[t]].resource = ret[t]
        /\ conn[target[t]].expired = maxLifeConn

\* C18: a step of GetResource(E) leaves the entry of every other endpoint, and
\* the handle of the resource it holds, as they were.
C18_OtherEntriesUntouched ==
    [][\A t \in Threads :
         (op'[t] = "GetResource" /\ (pc'[t] # pc[t] \/ todo'[t] # todo[t]))
         => \A e \in Endpoints \ {target'[t]} :
               /\ conn'[e] = conn[e]
               /\ conn[e].resource # NoRes
                  => closes'[conn[e].resource] = closes[conn[e].resource]]_vars

\* C19: when a GetResource(E) that no other operation interleaved with
\* returns an error, the cache holds no entry for E and the resource the lookup
\* found, if any, is closed and not cached; the lookup and the dial leave the
\* cache as it is, so a call that found nothing changes nothing.
C19_FailedCallLeavesNoEntry ==
    [][\A t \in Threads :
         /\ (pc[t] # "done" /\ pc'[t] = "done" /\ op'[t] = "GetResource"
               /\ err'[t] # "nil" /\ solo'[t])
            => /\ conn'[target[t]] = NoConn
               /\ found[t] # NoRes
                  => (closes'[found[t]] = 1 /\ \A e \in Endpoints : conn'[e].resource # found[t])
         /\ (op'[t] = "GetResource" /\ (pc[t] = "idle" \/ pc[t] = "dial") /\ pc'[t] # pc[t])
            => conn' = conn]_vars

\* an undisturbed call found an entry, removed and closed it, and failed to dial
C19_Witness ==
    \E t \in Threads :
        /\ pc[t] = "done"
        /\ op[t] = "GetResource"
        /\ err[t] # "nil"
        /\ solo[t]
        /\ found[t] # NoRes
        /\ closes[found[t]] = 1

\* C20: when GetResource(E) returns a resource without error, at the step of
\* the return the resource's handle is open and the cache maps E to it.
C20_ReturnedIsOpenAndCached ==
    [][\A t \in Threads :
         (pc[t] # "done" /\ pc'[t] = "done" /\ op'[t] = "GetResource"
            /\ err'[t] = "nil" /\ ret'[t] # NoRes)
         => /\ closes'[ret'[t]] = 0
            /\ conn'[target[t]].resource = ret'[t]]_vars

\* the step in which GetResourceWithProto, its GetResource having returned a
\* resource, compares the descriptor sets
ProtoStep(t) ==
    /\ pc[t] = "done"
    /\ pc'[t] = "end"
    /\ frame[t].outer = "GetResourceWithProto"
    /\ err[t] = "nil"

FullName(service, method) ==
    IF service = "svc" /\ method = "m2" THEN "svc.m2" ELSE "?"

\* C14: an Invoke that has finished made exactly one GetResource, not
\* restarting and with plainText (no credential error); if that returned a
\* resource it made exactly one Resource.Invoke, on that resource's call with
\* the name service.method, and if it failed it made none and returns the
\* dial's error. Before Resource.Invoke is reached none has been made.
C14_OneGetOneInvoke ==
    \A t \in Threads :
        frame[t].outer = "Invoke" =>
            /\ frame[t].gets = 1
            /\ ~isRestartConn[t]
            /\ dials[t] <= 1
            /\ err[t] # "CredentialError"
            /\ pc[t] # "end" => frame[t].invs = 0
            /\ (pc[t] = "end" /\ ret[t] # NoRes)
               => /\ frame[t].invs = 1
                  /\ frame[t].name = FullName(frame[t].service, frame[t].method)
            /\ (pc[t] = "end" /\ ret[t] = NoRes)
               => /\ frame[t].invs = 0
                  /\ err[t] = "DialError"

\* an Invoke that dialed, invoked once and got its reply
C14_Witness ==
    \E t \in Threads :
        /\ pc[t] = "end"
        /\ frame[t].outer = "Invoke"
        /\ dials[t] = 1
        /\ frame[t].invs = 1
        /\ frame[t].name = "svc.m2"
        /\ err[t] = "nil"

\* C15: the step in which Resource.Invoke fails with a resolution or protocol
\* error hands that error to the caller and leaves the cache, every handle and
\* every health status as they were, so the entry is still there, open and
\* healthy, for the next GetResource to reuse.
C15_InvokeErrorKeepsEntry ==
    [][\A t \in Threads :
         (pc[t] = "invoke" /\ pc'[t] = "end" /\ err'[t] \in {"ResolutionError", "ProtocolError"})
         => /\ conn' = conn
            /\ closes' = closes
            /\ broken' = broken
            /\ isValid(ret[t])
            /\ ret'[t] = ret[t]]_vars

\* an Invoke failed with a resolution error and the entry it used is still
\* cached and open
C15_Witness ==
    \E t \in Threads :
        /\ pc[t] = "end"
        /\ frame[t].outer = "Invoke"
        /\ err[t] = "ResolutionError"
        /\ conn[target[t]].resource = ret[t]
        /\ isValid(ret[t])

\* C16: Resource.Invoke sends the headers field of the resource as it is at
\* the send, and the headers field of an existing resource is overwritten by
\* the reuse step of any caller's GetResource, with the client's header list
\* of that moment.
C16_SharedHeaders ==
    [][/\ \A t \in Threads :
            (pc[t] = "invoke" /\ pc'[t] = "end") => frame'[t].sent = resHeaders[ret[t]]
       /\ \A t \in Threads :
            ReuseStep(t) => resHeaders'[found[t]] = headers \o reflectHeaders
       /\ \A r \in Res :
            (Created(r) /\ resHeaders'[r] # resHeaders[r])
            => \E t \in Threads : ReuseStep(t) /\ found[t] = r]_vars

\* an Invoke sent a header list that another caller's GetResource wrote after
\* the Invoke's own GetResource had returned
C16_Witness ==
    \E t \in Threads :
        /\ pc[t] = "end"
        /\ frame[t].outer = "Invoke"
        /\ frame[t].invs = 1
        /\ frame[t].sent # frame[t].acq

====
